---- MODULE Spec2Model ----
(***************************************************************************)
(* Distributed average consensus with additive secret sharing              *)
(* (Jatewo/PE-miniproject-1).                                              *)
(*                                                                         *)
(* Python objects live in a heap: a Node object is a record reached        *)
(* through a reference, and a neighbor set is a set of references, so      *)
(* that aliasing between a graph and its copy can be expressed.            *)
(* Python floats are modelled by exact rationals (a normalised pair        *)
(* num/den); floating-point rounding is not modelled.                      *)
(***************************************************************************)
EXTENDS Integers, Sequences, FiniteSets, TLC

(***************************************************************************)
(* Bounds of the model.                                                    *)
(***************************************************************************)
\* largest node count for graph construction
MaxN == 4
\* largest node count for the sharing and simulation specifications
MaxSimN == 3
\* set_initial_values draws integers in 0..MaxVal
MaxVal == 2
\* generate_shares draws integers in -MaxShare..MaxShare (random_range)
MaxShare == 1
\* largest config.max_iterations
MaxIter == 3
\* largest node count for runs that follow apply_shares
MaxFrameN == 2

(***************************************************************************)
(* Exact rational arithmetic standing for Python float arithmetic.         *)
(***************************************************************************)
Abs(x) == IF x < 0 THEN -x ELSE x

\* Operators that use an argument several times bind it first to a value
\* (x \in {e}), so that e is evaluated once.
RECURSIVE Gcd(_, _)
Gcd(a, b) == IF b = 0 THEN a ELSE CHOOSE g \in {Gcd(b, m) : m \in {a % b}} : TRUE

\* n/d in lowest terms with a positive denominator, for integers n, d
Normalised(n, d) ==
    LET s == IF d < 0 THEN -1 ELSE 1
    IN  CHOOSE q \in {[num |-> (s * n) \div g, den |-> (s * d) \div g] :
                        g \in {Gcd(Abs(n), Abs(d))}} : TRUE

\* the normalised rational n/d, d # 0
Q(n, d) == CHOOSE q \in {Normalised(nv, dv) : nv \in {n}, dv \in {d}} : TRUE

QInt(n) == [num |-> n, den |-> 1]
Zero == QInt(0)
One == QInt(1)
QAdd(a, b) == CHOOSE q \in {Q(x.num * y.den + y.num * x.den, x.den * y.den) : x \in {a}, y \in {b}} : TRUE
QSub(a, b) == CHOOSE q \in {Q(x.num * y.den - y.num * x.den, x.den * y.den) : x \in {a}, y \in {b}} : TRUE
QMul(a, b) == CHOOSE q \in {Q(x.num * y.num, x.den * y.den) : x \in {a}, y \in {b}} : TRUE
\* a / b, b # 0
QDiv(a, b) == CHOOSE q \in {Q(x.num * y.den, x.den * y.num) : x \in {a}, y \in {b}} : TRUE
QLt(a, b) == \E x \in {a}, y \in {b} : x.num * y.den < y.num * x.den
QLe(a, b) == \E x \in {a}, y \in {b} : x.num * y.den <= y.num * x.den
QAbs(a) == CHOOSE q \in {[num |-> Abs(x.num), den |-> x.den] : x \in {a}} : TRUE
QMax(a, b) == CHOOSE q \in {IF QLt(x, y) THEN y ELSE x : x \in {a}, y \in {b}} : TRUE
QMin(a, b) == CHOOSE q \in {IF QLt(y, x) THEN y ELSE x : x \in {a}, y \in {b}} : TRUE

\* the elements of a finite set of integers in ascending order
RECURSIVE SortedSeq(_)
SortedSeq(S) ==
    IF S = {} THEN << >>
    ELSE LET m == CHOOSE x \in S : \A y \in S : x <= y
         IN  << m >> \o SortedSeq(S \ {m})

\* sum(xs) over a sequence of rationals, left to right from 0
RECURSIVE QSumTo(_, _)
QSumTo(xs, n) == IF n = 0 THEN Zero ELSE QAdd(QSumTo(xs, n - 1), xs[n])
QSum(xs) == CHOOSE q \in {QSumTo(v, Len(v)) : v \in {xs}} : TRUE

\* max(xs) / min(xs) of a non-empty sequence of rationals
RECURSIVE QMaxTo(_, _)
QMaxTo(xs, n) == IF n = 1 THEN xs[1] ELSE QMax(QMaxTo(xs, n - 1), xs[n])
QMaxSeq(xs) == CHOOSE q \in {QMaxTo(v, Len(v)) : v \in {xs}} : TRUE
RECURSIVE QMinTo(_, _)
QMinTo(xs, n) == IF n = 1 THEN xs[1] ELSE QMin(QMinTo(xs, n - 1), xs[n])
QMinSeq(xs) == CHOOSE q \in {QMinTo(v, Len(v)) : v \in {xs}} : TRUE

(***************************************************************************)
(* Program state.                                                          *)
(***************************************************************************)
VARIABLES
    pc,          \* where the driving script is
    err,         \* the exception that ended the script, or "none"
    heap,        \* reference -> Node object [id, value, starting_value, neighbors]
    nodes,       \* Graph.nodes of the base graph: a sequence of references
    topology,    \* Graph.topology
    true_avg,    \* Graph.true_avg
    random_range,\* apply_shares: its argument
    shares,      \* apply_shares: sender id -> (neighbor id -> share) generated so far
    k,           \* apply_shares: index of the next node in the current pass
    config,      \* the SimulationConfig of the current run
    graph,       \* run_simulation: nodes of the deep copy
    alpha,       \* run_simulation: self-weight constant
    iterations,  \* run_simulation: loop counter
    max_change,  \* run_simulation: max_change of the last update
    stopped,     \* run_simulation: the loop was left by break
    history      \* run_simulation: sequence of StepResult

vars == << pc, err, heap, nodes, topology, true_avg, random_range, shares, k, config, graph,
           alpha, iterations, max_change, stopped, history >>

Topology == {"RING", "STAR", "TREE", "MESH", "FULL"}

NoConfig == [algorithm |-> "NONE", max_iterations |-> 0, epsilon |-> Zero,
             noise_scale |-> 0, noise_distribution |-> "None"]

(***************************************************************************)
(* Node and Graph construction.                                            *)
(***************************************************************************)
\* Node(id): value and starting_value default to 0.0, no neighbors
NewNode(id) == [id |-> id, value |-> Zero, starting_value |-> Zero, neighbors |-> {}]

\* set.add on a set of Node references: Node.__eq__ and __hash__ go by id, so
\* an object whose id is already present is not added
SetAdd(h, S, r) == IF \E x \in S : h[x].id = h[r].id THEN S ELSE S \cup {r}

\* Graph._connect(node1, node2), on references
connect(h, r1, r2) ==
    LET h1 == [h EXCEPT ![r1].neighbors = SetAdd(h, @, r2)]
    IN  [h1 EXCEPT ![r2].neighbors = SetAdd(h1, @, r1)]

\* _connect applied to a sequence of <<index, index>> pairs (0-based indices into ns)
RECURSIVE connect_all(_, _, _)
connect_all(h, ns, pairs) ==
    IF pairs = << >> THEN h
    ELSE connect_all(connect(h, ns[pairs[1][1] + 1], ns[pairs[1][2] + 1]), ns, Tail(pairs))

\* self.nodes = [Node(i) for i in range(num_nodes)]: fresh objects 1..n
FreshNodes(n) == [r \in 1..n |-> NewNode(r - 1)]
NodeList(n) == [i \in 1..n |-> i]

\* _initialize_ring without the wrap-around: i connects to i + 1 only while i + 1 < n
RingPairs_no_wrap(n) == [i \in 1..(n - 1) |-> << i - 1, i >>]
\* _initialize_star connecting each node to the one before it, not to the center
StarPairs_chain(n) == [i \in 1..(n - 1) |-> << i - 1, i >>]
RingPairs(n) == [i \in 1..n |-> << i - 1, i % n >>]
StarPairs(n) == [i \in 1..(n - 1) |-> << 0, i >>]
TreePairs(n) == [i \in 1..(n - 1) |-> << i, (i - 1) \div 2 >>]
\* combinations(range(n), 2) in lexicographic order
RECURSIVE Combinations(_, _)
Combinations(n, i) ==
    IF i >= n THEN << >>
    ELSE [j \in 1..(n - 1 - i) |-> << i, i + j >>] \o Combinations(n, i + 1)
FullPairs(n) == Combinations(n, 0)

\* the ids reached from the node with id `start` along neighbors
RECURSIVE Reach(_, _, _)
Reach(h, ns, reached) ==
    LET more == reached \cup UNION {{h[x].id : x \in h[ns[i + 1]].neighbors} : i \in reached}
    IN  IF more = reached THEN reached ELSE Reach(h, ns, more)

\* Graph._is_connected
is_connected(h, ns) ==
    IF Len(ns) = 0 THEN TRUE
    ELSE Cardinality(Reach(h, ns, {h[ns[1]].id})) = Len(ns)

\* nx.connected_components of the graph built from the edges alone: a node that
\* has no neighbor is never added to nx_graph.  Components come in the order
\* in which their first node was added, i.e. by smallest id.
RECURSIVE Components(_, _, _)
Components(h, ns, left) ==
    IF left = {} THEN << >>
    ELSE LET m == CHOOSE x \in left : \A y \in left : x <= y
             c == Reach(h, ns, {m})
         IN  << c >> \o Components(h, ns, left \ c)
connected_components(h, ns) ==
    Components(h, ns, {i \in 0..(Len(ns) - 1) : h[ns[i + 1]].neighbors # {}})

(***************************************************************************)
(* The driving script starts with no graph.                                *)
(***************************************************************************)
Init ==
    /\ pc = "start"
    /\ err = "none"
    /\ heap = << >>
    /\ nodes = << >>
    /\ topology = "NONE"
    /\ true_avg = Zero
    /\ random_range = 0
    /\ shares = << >>
    /\ k = 0
    /\ config = NoConfig
    /\ graph = << >>
    /\ alpha = Zero
    /\ iterations = 0
    /\ max_change = Zero
    /\ stopped = FALSE
    /\ history = << >>

\* what no Graph method touches
SimUnchanged == UNCHANGED << config, graph, alpha, iterations, max_change, stopped, history >>

\* Graph.__init__ ended: normally, or by the exception e
Constructed(h, n, t, e) ==
    /\ pc' = IF e = "none" THEN "built" ELSE "raised"
    /\ err' = e
    /\ heap' = h
    /\ nodes' = NodeList(n)
    /\ topology' = t
    /\ UNCHANGED << true_avg, random_range, shares, k >>
    /\ SimUnchanged

\* Graph(n, RING)
initialize_ring(n) ==
    /\ pc = "start"
    /\ Constructed(connect_all(FreshNodes(n), NodeList(n), RingPairs(n)), n, "RING", "none")

\* Graph(n, STAR): self.nodes[0] raises IndexError on an empty node list
initialize_star(n) ==
    /\ pc = "start"
    /\ IF n = 0
       THEN Constructed(FreshNodes(n), n, "STAR", "IndexError")
       ELSE Constructed(connect_all(FreshNodes(n), NodeList(n), StarPairs(n)), n, "STAR", "none")

\* Graph(n, TREE)
initialize_tree(n) ==
    /\ pc = "start"
    /\ Constructed(connect_all(FreshNodes(n), NodeList(n), TreePairs(n)), n, "TREE", "none")

\* Graph(n, FULL)
initialize_full(n) ==
    /\ pc = "start"
    /\ Constructed(connect_all(FreshNodes(n), NodeList(n), FullPairs(n)), n, "FULL", "none")

\* the pairs of `pairs` whose index is in `drawn`, in order
RECURSIVE Drawn(_, _, _)
Drawn(pairs, drawn, i) ==
    IF i > Len(pairs) THEN << >>
    ELSE (IF i \in drawn THEN << pairs[i] >> ELSE << >>) \o Drawn(pairs, drawn, i + 1)

\* Graph(n, MESH).  p = min(0.8, max(0.02, 1/ln(n+2))) lies strictly between
\* 0 and 1 for n >= 2, so every subset of the pairs can be drawn: `drawn` is
\* the set of indices i with random.random() < p.  us[i], vs[i] are the
\* random.choice results for the i-th pair of adjacent components.
\* zip(comps, comps[1:], strict=True) yields the adjacent pairs and then, its
\* two arguments differing in length whenever comps is non-empty, raises
\* ValueError.
initialize_mesh(n) ==
    /\ pc = "start"
    /\ IF n < 2
       THEN Constructed(FreshNodes(n), n, "MESH", "none")
       ELSE \E drawn \in SUBSET (1..Len(FullPairs(n))) :
              LET h1 == connect_all(FreshNodes(n), NodeList(n), Drawn(FullPairs(n), drawn, 1))
                  comps == connected_components(h1, NodeList(n))
                  nb == IF Len(comps) = 0 THEN 0 ELSE Len(comps) - 1
              IN  IF is_connected(h1, NodeList(n))
                  THEN Constructed(h1, n, "MESH", "none")
                  ELSE \E us \in [1..nb -> 0..(n - 1)], vs \in [1..nb -> 0..(n - 1)] :
                         /\ \A i \in 1..nb : us[i] \in comps[i] /\ vs[i] \in comps[i + 1]
                         /\ Constructed(
                              connect_all(h1, NodeList(n), [i \in 1..nb |-> << us[i], vs[i] >>]),
                              n, "MESH",
                              IF Len(comps) = 0 THEN "none" ELSE "ValueError")

\* Graph(num_nodes, topology) for every node count up to maxn
NewGraph(maxn) ==
    \E n \in 0..maxn :
        \/ initialize_ring(n)
        \/ initialize_star(n)
        \/ initialize_tree(n)
        \/ initialize_mesh(n)
        \/ initialize_full(n)

(***************************************************************************)
(* Derived views of a graph.                                               *)
(***************************************************************************)
\* ids of the neighbors of the object r
NeighborIds(h, r) == {h[x].id : x \in h[r].neighbors}
N == Len(nodes)
Symmetric(h, ns) ==
    \A i, j \in 1..Len(ns) : (ns[j] \in h[ns[i]].neighbors) <=> (ns[i] \in h[ns[j]].neighbors)
NoSelfLoop(h, ns) == \A i \in 1..Len(ns) : ns[i] \notin h[ns[i]].neighbors
Connected(h, ns) == Len(ns) = 0 \/ Reach(h, ns, {0}) = 0..(Len(ns) - 1)

\* the number of undirected edges between distinct nodes
EdgeCount(h, ns) ==
    Cardinality({e \in (1..Len(ns)) \X (1..Len(ns)) :
                   e[1] < e[2] /\ ns[e[2]] \in h[ns[e[1]]].neighbors})
\* the neighbors of every node i are the existing ids among its heap parent
\* (i - 1) div 2 (for i >= 1) and its heap children 2i + 1, 2i + 2
TreeShape(h, ns) ==
    \A i \in 0..(Len(ns) - 1) :
        /\ NeighborIds(h, ns[i + 1]) =
              ((IF i >= 1 THEN {(i - 1) \div 2} ELSE {}) \cup {2 * i + 1, 2 * i + 2})
                  \cap (0..(Len(ns) - 1))
        /\ Cardinality(h[ns[i + 1]].neighbors) = Cardinality(NeighborIds(h, ns[i + 1]))

\* node.value for node in ns, as a sequence
Values(h, ns) == [i \in 1..Len(ns) |-> h[ns[i]].value]
StartingValues(h, ns) == [i \in 1..Len(ns) |-> h[ns[i]].starting_value]
\* mean of a non-empty sequence of rationals
Mean(xs) == QDiv(QSum(xs), QInt(Len(xs)))

(***************************************************************************)
(* Graph.set_initial_values and Graph.apply_shares.                        *)
(***************************************************************************)
\* Graph.set_initial_values(0, MaxVal): every node draws value = starting_value,
\* true_avg = mean(starting_value); an empty graph is rejected
set_initial_values ==
    /\ pc = "built"
    /\ IF N = 0
       THEN /\ pc' = "raised"
            /\ err' = "EmptyGraph"
            /\ UNCHANGED << heap, true_avg >>
       ELSE \E vals \in [1..N -> 0..MaxVal] :
              /\ heap' = [r \in DOMAIN heap |->
                            [heap[r] EXCEPT !.value = QInt(vals[r]),
                                            !.starting_value = QInt(vals[r])]]
              /\ true_avg' = Mean([i \in 1..N |-> QInt(vals[i])])
              /\ pc' = "valued"
              /\ err' = "none"
    /\ UNCHANGED << nodes, topology, random_range, shares, k >>
    /\ SimUnchanged

\* the starting values of the 4-node scenario
ExampleValues == << 0, 10, 20, 30 >>

\* Graph.set_initial_values(0, 30) drawing exactly ExampleValues
set_example_values ==
    /\ pc = "built"
    /\ N = Len(ExampleValues)
    /\ heap' = [r \in DOMAIN heap |->
                  [heap[r] EXCEPT !.value = QInt(ExampleValues[r]),
                                  !.starting_value = QInt(ExampleValues[r])]]
    /\ true_avg' = Mean([i \in 1..N |-> QInt(ExampleValues[i])])
    /\ pc' = "valued"
    /\ err' = "none"
    /\ UNCHANGED << nodes, topology, random_range, shares, k >>
    /\ SimUnchanged

\* Graph.apply_shares(random_range) is entered: no share generated yet
apply_shares ==
    /\ pc = "valued"
    /\ \E r \in 0..MaxShare : random_range' = r
    /\ pc' = IF N = 0 THEN "shared" ELSE "gen"
    /\ shares' = << >>
    /\ k' = 1
    /\ UNCHANGED << err, heap, nodes, topology, true_avg >>
    /\ SimUnchanged

\* generate_shares with `self.value -= total_sent` left out
generate_shares_keep_value(h, r, draw) == h

\* Node.generate_shares on the object r; draw[id] is the random.uniform result
\* for the neighbor with that id.  Yields the heap after self.value -= total_sent
\* (the returned shares_to_send is draw itself).
generate_shares(h, r, draw) ==
    LET ids == SortedSeq(NeighborIds(h, r))
        total_sent == QSum([i \in 1..Len(ids) |-> QInt(draw[ids[i]])])
    IN  [h EXCEPT ![r].value = QSub(@, total_sent)]

\* Node.apply_received_shares on the object r
apply_received_shares(h, r, received_shares_list) ==
    LET total_received == QSum(received_shares_list)
    IN  [h EXCEPT ![r].value = QAdd(@, total_received)]

\* apply_shares, first pass: the k-th node generates its shares
GenerateShares ==
    /\ pc = "gen"
    /\ \E draw \in [NeighborIds(heap, nodes[k]) -> (-random_range)..random_range] :
         /\ heap' = generate_shares(heap, nodes[k], draw)
         /\ shares' = Append(shares, draw)
    /\ IF k = N THEN pc' = "deliver" /\ k' = 1 ELSE pc' = pc /\ k' = k + 1
    /\ UNCHANGED << err, nodes, topology, true_avg, random_range >>
    /\ SimUnchanged

\* the shares addressed to the node with id `id` by its neighbors
ReceivedShares(h, r, sh) ==
    LET ids == SortedSeq(NeighborIds(h, r))
    IN  [i \in 1..Len(ids) |-> QInt(sh[ids[i] + 1][h[r].id])]

\* apply_shares, second pass: the k-th node receives the shares addressed to it
DeliverShares ==
    /\ pc = "deliver"
    /\ heap' = apply_received_shares(heap, nodes[k], ReceivedShares(heap, nodes[k], shares))
    /\ IF k = N THEN pc' = "shared" /\ k' = 0 ELSE pc' = pc /\ k' = k + 1
    /\ UNCHANGED << err, nodes, topology, true_avg, random_range, shares >>
    /\ SimUnchanged

(***************************************************************************)
(* copy.deepcopy of a graph: Node.__deepcopy__ with its memo.              *)
(***************************************************************************)
\* st = [h |-> heap, memo |-> copied reference -> its copy, out |-> result]
RECURSIVE deepcopy_node(_, _)
RECURSIVE deepcopy_refs(_, _)

\* Node.__deepcopy__ with `new_node.neighbors = set(self.neighbors)`: the copy
\* of a node keeps the neighbor objects of the original
deepcopy_node_shared_neighbors(st, r) ==
    IF r \in DOMAIN st.memo
    THEN [st EXCEPT !.out = st.memo[r]]
    ELSE LET new == Len(st.h) + 1
             h1 == Append(st.h, [id |-> st.h[r].id, value |-> st.h[r].value,
                                 starting_value |-> st.h[r].starting_value,
                                 neighbors |-> st.h[r].neighbors])
             memo1 == [x \in DOMAIN st.memo \cup {r} |-> IF x = r THEN new ELSE st.memo[x]]
         IN  [h |-> h1, memo |-> memo1, out |-> new]

\* Node.__deepcopy__ without `new_node.starting_value = self.starting_value`:
\* the copy keeps the starting_value Node.__init__ gave it, its value
deepcopy_node_value_as_start(st, r) ==
    IF r \in DOMAIN st.memo
    THEN [st EXCEPT !.out = st.memo[r]]
    ELSE LET new == Len(st.h) + 1
             h1 == Append(st.h, [id |-> st.h[r].id, value |-> st.h[r].value,
                                 starting_value |-> st.h[r].value,
                                 neighbors |-> {}])
             memo1 == [x \in DOMAIN st.memo \cup {r} |-> IF x = r THEN new ELSE st.memo[x]]
             st2 == deepcopy_refs([h |-> h1, memo |-> memo1, out |-> << >>],
                                  SortedSeq(st.h[r].neighbors))
         IN  [h |-> [st2.h EXCEPT ![new].neighbors = {st2.out[i] : i \in 1..Len(st2.out)}],
              memo |-> st2.memo, out |-> new]

\* Node.__deepcopy__(self = r, memo)
deepcopy_node(st, r) ==
    IF r \in DOMAIN st.memo
    THEN [st EXCEPT !.out = st.memo[r]]
    ELSE LET new == Len(st.h) + 1
             \* new_node = Node(self.id, self.value); starting_value copied
             h1 == Append(st.h, [id |-> st.h[r].id, value |-> st.h[r].value,
                                 starting_value |-> st.h[r].starting_value,
                                 neighbors |-> {}])
             \* memo[id(self)] = new_node
             memo1 == [x \in DOMAIN st.memo \cup {r} |-> IF x = r THEN new ELSE st.memo[x]]
             \* copy.deepcopy(self.neighbors, memo)
             st2 == deepcopy_refs([h |-> h1, memo |-> memo1, out |-> << >>],
                                  SortedSeq(st.h[r].neighbors))
         IN  [h |-> [st2.h EXCEPT ![new].neighbors = {st2.out[i] : i \in 1..Len(st2.out)}],
              memo |-> st2.memo, out |-> new]

\* deep copies of the objects of the sequence rs, in order; out is their sequence
deepcopy_refs(st, rs) ==
    IF rs = << >> THEN [st EXCEPT !.out = << >>]
    ELSE LET st1 == deepcopy_node(st, rs[1])
             st2 == deepcopy_refs(st1, Tail(rs))
         IN  [st2 EXCEPT !.out = << st1.out >> \o st2.out]

\* a shallow copy in place of copy.deepcopy: the copy shares the node objects
shallow_copy(h, ns) == [h |-> h, nodes |-> ns]

\* copy.deepcopy(base_graph): the heap with the copies added and the copy's node list
deepcopy(h, ns) ==
    LET st == deepcopy_refs([h |-> h, memo |-> << >>, out |-> << >>], ns)
    IN  [h |-> st.h, nodes |-> st.out]

(***************************************************************************)
(* Simulation.                                                             *)
(***************************************************************************)
Algorithm == {"SYNCHRONOUS", "ASYNCHRONOUS"}
Epsilons == {Zero, Q(1, 2), QInt(2)}

\* SimulationConfig values without noise (noise_distribution None)
NoNoiseConfigs ==
    [algorithm : Algorithm, max_iterations : 0..MaxIter, epsilon : Epsilons,
     noise_scale : {0}, noise_distribution : {"None"}]

\* the epsilon of the 4-node scenario, 1e-6
ExampleEpsilon == Q(1, 1000000)
ExampleConfig == [algorithm |-> "SYNCHRONOUS", max_iterations |-> MaxIter,
                  epsilon |-> ExampleEpsilon, noise_scale |-> 0,
                  noise_distribution |-> "None"]
\* synchronous configurations without noise
SyncConfigs == {c \in NoNoiseConfigs : c.algorithm = "SYNCHRONOUS"} \cup {ExampleConfig}

\* the values Simulation._get_noise can return: 0.0 without a distribution,
\* else a sample, drawn here from the integers of [-noise_scale, noise_scale]
get_noise(noise_distribution, noise_scale) ==
    IF noise_distribution \in {"UNIFORM", "GAUSSIAN", "LAPLACE"}
    THEN (-noise_scale)..noise_scale
    ELSE {0}

\* Graph.get_max_error(): max over nodes of |node.value - true_avg|
get_max_error(h, g, avg) ==
    QMaxSeq([i \in 1..Len(g) |-> QAbs(QSub(h[g[i]].value, avg))])

\* Graph.avg: the arithmetic mean of the node values
graph_avg(h, g) == Mean(Values(h, g))

\* {node.id: node.value for node in graph.nodes}
ValueDict(h, g) == [id \in {h[g[i]].id : i \in 1..Len(g)} |->
                      h[CHOOSE r \in {g[i] : i \in 1..Len(g)} : h[r].id = id].value]

\* active_pair = None: the empty tuple, where a pair is << id_a, id_b >>
None == << >>
StepResult(iteration, values, error, active_pair) ==
    [iteration |-> iteration, values |-> values, error |-> error, active_pair |-> active_pair]

\* max_degree counted one too high, so that alpha = 1 / (max_degree + 2)
max_degree_plus_one(h, g) ==
    1 + (CHOOSE d \in {Cardinality(h[g[i]].neighbors) : i \in 1..Len(g)} :
            \A i \in 1..Len(g) : Cardinality(h[g[i]].neighbors) <= d)

\* max(len(node.neighbors) for node in graph.nodes), graph non-empty
max_degree(h, g) ==
    CHOOSE d \in {Cardinality(h[g[i]].neighbors) : i \in 1..Len(g)} :
        \A i \in 1..Len(g) : Cardinality(h[g[i]].neighbors) <= d

\* run_simulation(base_graph, config) up to the loop: the deep copy, history
\* entry 0 and, for the synchronous algorithm, alpha.  The copy of an earlier
\* run is no longer referenced and its objects are dropped from the heap.
\* A caller that runs again on the same base graph (main.py runs both
\* algorithms in turn) keeps max_iterations and epsilon.
run_simulation(cfg) ==
    /\ pc \in {"valued", "shared", "ended"}
    /\ pc = "ended" => /\ cfg.max_iterations = config.max_iterations
                       /\ cfg.epsilon = config.epsilon
    /\ LET base == SubSeq(heap, 1, N)
           c == deepcopy(base, nodes)
       IN  /\ heap' = c.h
           /\ graph' = c.nodes
           /\ history' = << StepResult(0, ValueDict(c.h, c.nodes),
                                       get_max_error(c.h, c.nodes, true_avg), None) >>
           /\ alpha' = IF cfg.algorithm = "SYNCHRONOUS"
                       THEN QDiv(One, QInt(max_degree(c.h, c.nodes) + 1))
                       ELSE Zero
    /\ config' = cfg
    /\ iterations' = 0
    /\ max_change' = Zero
    /\ stopped' = FALSE
    /\ pc' = "loop"
    /\ err' = "none"
    /\ UNCHANGED << nodes, topology, true_avg, random_range, shares, k >>

\* next value with self_weight = 1.0: `- degree * alpha` left out
sync_next_value_unit_self_weight(h, r, a, noise) ==
    LET nbrs == SortedSeq(h[r].neighbors)
    IN  QAdd(h[r].value,
             QSum([i \in 1..Len(nbrs) |->
                     QMul(a, QAdd(h[nbrs[i]].value, QInt(noise[nbrs[i]])))]))

\* next_values[node.id] of _perform_sync_update for the object r; noise[x] is
\* the noise drawn when the neighbor object x is read
sync_next_value(h, r, a, noise) ==
    LET degree == Cardinality(h[r].neighbors)
        self_weight == QSub(One, QMul(QInt(degree), a))
        nbrs == SortedSeq(h[r].neighbors)
    IN  QAdd(QMul(self_weight, h[r].value),
             QSum([i \in 1..Len(nbrs) |->
                     QMul(a, QAdd(h[nbrs[i]].value, QInt(noise[nbrs[i]])))]))

\* _perform_sync_update committing each node as soon as its next value is
\* computed: the nodes from the i-th on, with mc the max_change so far
RECURSIVE sync_update_in_place_from(_, _, _, _, _, _)
sync_update_in_place_from(h, g, a, noise, i, mc) ==
    IF i > Len(g) THEN [h |-> h, max_change |-> mc]
    ELSE LET next == sync_next_value(h, g[i], a, noise[g[i]])
             change == QAbs(QSub(h[g[i]].value, next))
         IN  sync_update_in_place_from([h EXCEPT ![g[i]].value = next], g, a, noise,
                                       i + 1, QMax(mc, change))
perform_sync_update_in_place(h, g, a, noise) ==
    sync_update_in_place_from(h, g, a, noise, 1, Zero)

\* _perform_sync_update with `max_change = change` in place of
\* `max_change = max(max_change, change)`: the change of the last node
perform_sync_update_last_change(h, g, a, noise) ==
    LET gs == {g[i] : i \in 1..Len(g)}
        next_values == [r \in gs |-> sync_next_value(h, r, a, noise[r])]
        changes == [i \in 1..Len(g) |-> QAbs(QSub(h[g[i]].value, next_values[g[i]]))]
    IN  [h |-> [r \in DOMAIN h |-> IF r \in gs THEN [h[r] EXCEPT !.value = next_values[r]]
                                               ELSE h[r]],
         max_change |-> changes[Len(g)]]

\* Simulation._perform_sync_update: every next value is computed from the old
\* heap, then committed; noise[r][x] is the draw of node r reading neighbor x
perform_sync_update(h, g, a, noise) ==
    LET gs == {g[i] : i \in 1..Len(g)}
        next_values == [r \in gs |-> sync_next_value(h, r, a, noise[r])]
        changes == [i \in 1..Len(g) |-> QAbs(QSub(h[g[i]].value, next_values[g[i]]))]
    IN  [h |-> [r \in DOMAIN h |-> IF r \in gs THEN [h[r] EXCEPT !.value = next_values[r]]
                                               ELSE h[r]],
         max_change |-> QMaxSeq(<< Zero >> \o changes)]

\* _perform_async_update without `node_b.value = new_b`
perform_async_update_one_sided(h, ra, rb, noise_a, noise_b) ==
    LET val_b_noisy == QAdd(h[rb].value, QInt(noise_b))
        new_a == QDiv(QAdd(h[ra].value, val_b_noisy), QInt(2))
    IN  [h EXCEPT ![ra].value = new_a]

\* _perform_async_update handing each side the other's value, not the average
perform_async_update_exchange(h, ra, rb, noise_a, noise_b) ==
    LET new_a == QAdd(h[rb].value, QInt(noise_b))
        new_b == QAdd(h[ra].value, QInt(noise_a))
        h1 == [h EXCEPT ![ra].value = new_a]
    IN  [h1 EXCEPT ![rb].value = new_b]

\* _perform_async_update committing node_a before new_b is computed
perform_async_update_sequential(h, ra, rb, noise_a, noise_b) ==
    LET new_a == QDiv(QAdd(h[ra].value, QAdd(h[rb].value, QInt(noise_b))), QInt(2))
        h1 == [h EXCEPT ![ra].value = new_a]
        new_b == QDiv(QAdd(h1[rb].value, QAdd(h1[ra].value, QInt(noise_a))), QInt(2))
    IN  [h1 EXCEPT ![rb].value = new_b]

\* Simulation._perform_async_update once node_a = ra and node_b = rb are chosen
perform_async_update(h, ra, rb, noise_a, noise_b) ==
    LET val_a_noisy == QAdd(h[ra].value, QInt(noise_a))
        val_b_noisy == QAdd(h[rb].value, QInt(noise_b))
        new_a == QDiv(QAdd(h[ra].value, val_b_noisy), QInt(2))
        new_b == QDiv(QAdd(h[rb].value, val_a_noisy), QInt(2))
        h1 == [h EXCEPT ![ra].value = new_a]
    IN  [h1 EXCEPT ![rb].value = new_b]

\* _check_consensus testing max_change < epsilon whatever the algorithm
check_consensus_max_change_only(h, g, epsilon, mc, algorithm) == QLt(mc, epsilon)

\* _check_consensus with <= in place of <
check_consensus_le(h, g, epsilon, mc, algorithm) ==
    IF algorithm = "SYNCHRONOUS"
    THEN QLe(mc, epsilon)
    ELSE QLe(QSub(QMaxSeq(Values(h, g)), QMinSeq(Values(h, g))), epsilon)

\* Simulation._check_consensus
check_consensus(h, g, epsilon, mc, algorithm) ==
    IF algorithm = "SYNCHRONOUS"
    THEN QLt(mc, epsilon)
    ELSE QLt(QSub(QMaxSeq(Values(h, g)), QMinSeq(Values(h, g))), epsilon)

\* the loop body with the convergence test ahead of history.append: the
\* update on which convergence is detected is not recorded
RecordStep_check_before_append(h, mc, active_pair) ==
    /\ iterations' = iterations + 1
    /\ heap' = h
    /\ max_change' = mc
    /\ stopped' = check_consensus(h, graph, config.epsilon, mc, config.algorithm)
    /\ history' = IF stopped'
                  THEN history
                  ELSE Append(history,
                              StepResult(iterations + 1, ValueDict(h, graph),
                                         get_max_error(h, graph, true_avg), active_pair))
    /\ UNCHANGED << pc, err, nodes, topology, true_avg, random_range, shares, k,
                    config, graph, alpha >>

\* the rest of one loop iteration after the update: the error, the history
\* entry and the convergence test
RecordStep(h, mc, active_pair) ==
    /\ iterations' = iterations + 1
    /\ heap' = h
    /\ max_change' = mc
    /\ history' = Append(history,
                         StepResult(iterations + 1, ValueDict(h, graph),
                                    get_max_error(h, graph, true_avg), active_pair))
    /\ stopped' = check_consensus(h, graph, config.epsilon, mc, config.algorithm)
    /\ UNCHANGED << pc, err, nodes, topology, true_avg, random_range, shares, k,
                    config, graph, alpha >>

InLoop == pc = "loop" /\ ~stopped /\ iterations < config.max_iterations

\* one iteration of the loop of run_simulation, synchronous algorithm
SyncStep ==
    /\ InLoop
    /\ config.algorithm = "SYNCHRONOUS"
    /\ \E noise \in [{graph[i] : i \in 1..Len(graph)} ->
                       [DOMAIN heap -> get_noise(config.noise_distribution, config.noise_scale)]] :
         LET u == perform_sync_update(heap, graph, alpha, noise)
         IN  RecordStep(u.h, u.max_change, None)

\* the asynchronous loop body leaving the loop iteration unrecorded when the
\* chosen node has no neighbors: the counter goes up, no StepResult is appended
AsyncStep_isolated_not_recorded ==
    /\ InLoop
    /\ config.algorithm = "ASYNCHRONOUS"
    /\ \E i \in 1..Len(graph) :
         LET ra == graph[i]
         IN  IF heap[ra].neighbors = {}
             THEN /\ iterations' = iterations + 1
                  /\ stopped' = check_consensus(heap, graph, config.epsilon, Zero,
                                                config.algorithm)
                  /\ UNCHANGED << pc, err, heap, nodes, topology, true_avg, random_range,
                                  shares, k, config, graph, alpha, max_change, history >>
             ELSE \E rb \in heap[ra].neighbors :
                  \E noise_a, noise_b \in get_noise(config.noise_distribution, config.noise_scale) :
                      RecordStep(perform_async_update(heap, ra, rb, noise_a, noise_b),
                                 Zero, << heap[ra].id, heap[rb].id >>)

\* one iteration of the loop of run_simulation, asynchronous algorithm
AsyncStep ==
    /\ InLoop
    /\ config.algorithm = "ASYNCHRONOUS"
    /\ \E i \in 1..Len(graph) :
         LET ra == graph[i]
         IN  IF heap[ra].neighbors = {}
             THEN RecordStep(heap, Zero, None)
             ELSE \E rb \in heap[ra].neighbors :
                  \E noise_a, noise_b \in get_noise(config.noise_distribution, config.noise_scale) :
                      RecordStep(perform_async_update(heap, ra, rb, noise_a, noise_b),
                                 Zero, << heap[ra].id, heap[rb].id >>)

\* the return statement of run_simulation: SimulationResult (results.py) has a
\* required field `name` that the call does not pass, so it raises TypeError
Return ==
    /\ pc = "loop"
    /\ stopped \/ iterations >= config.max_iterations
    /\ pc' = "ended"
    /\ err' = "TypeError"
    /\ UNCHANGED << heap, nodes, topology, true_avg, random_range, shares, k, config,
                    graph, alpha, iterations, max_change, stopped, history >>

(***************************************************************************)
(* Asynchronous run with a cap that is never reached.  The loop counter    *)
(* and the history are left as they are, so that the run can go on for     *)
(* ever in a finite state space; the update and the convergence test are   *)
(* those of AsyncStep.                                                     *)
(***************************************************************************)
Uncapped(h) ==
    /\ pc = "loop" /\ ~stopped
    /\ config.algorithm = "ASYNCHRONOUS"
    /\ \E hv \in {h} :
         /\ heap' = hv
         /\ stopped' = check_consensus(hv, graph, config.epsilon, Zero, config.algorithm)
    /\ UNCHANGED << pc, err, nodes, topology, true_avg, random_range, shares, k,
                    config, graph, alpha, iterations, max_change, history >>

\* random.choice picked the i-th node, which has no neighbors
GossipIsolated(i) ==
    /\ i \in 1..Len(graph)
    /\ heap[graph[i]].neighbors = {}
    /\ Uncapped(heap)

\* random.choice picked the i-th node and then its neighbor graph[j]
Gossip(i, j) ==
    /\ i \in 1..Len(graph) /\ j \in 1..Len(graph)
    /\ graph[j] \in heap[graph[i]].neighbors
    /\ \E noise_a, noise_b \in get_noise(config.noise_distribution, config.noise_scale) :
         Uncapped(perform_async_update(heap, graph[i], graph[j], noise_a, noise_b))

\* the loop was left by break
ReturnAfterBreak == stopped /\ Return

\* asynchronous configurations with a positive epsilon
AsyncConfigs == {c \in NoNoiseConfigs : c.algorithm = "ASYNCHRONOUS" /\ QLt(Zero, c.epsilon)}

(***************************************************************************)
(* Views of a run, used to state properties.                               *)
(***************************************************************************)
InRun == pc \in {"loop", "ended"}
NoNoise == config.noise_distribution = "None"
DictSum(d) == LET ids == SortedSeq(DOMAIN d) IN QSum([i \in 1..Len(ids) |-> d[ids[i]]])
Spread(h, g) == QSub(QMaxSeq(Values(h, g)), QMinSeq(Values(h, g)))
StoppedEarly == InRun /\ stopped /\ iterations < config.max_iterations
\* a no-noise synchronous run on a connected graph whose mean is true_avg
\* has stopped before max_iterations
SyncStoppedEarly ==
    /\ StoppedEarly /\ NoNoise /\ config.algorithm = "SYNCHRONOUS"
    /\ Connected(heap, graph)
    /\ Mean(Values(heap, nodes)) = true_avg
\* the loop is running on a connected graph
RunningConnected == pc = "loop" /\ Connected(heap, graph)
\* the loop was left by break with max(values) - min(values) < epsilon
ConvergedBreak == stopped /\ QLt(Spread(heap, graph), config.epsilon)
\* the largest per-node difference between the last two history entries
LastChange ==
    LET n == Len(history)
        ids == SortedSeq(DOMAIN history[n].values)
    IN  QMaxSeq([i \in 1..Len(ids) |->
                   QAbs(QSub(history[n].values[ids[i]], history[n - 1].values[ids[i]]))])

\* the values of a dict id -> value, by ascending id
DictValues(d) == LET ids == SortedSeq(DOMAIN d) IN [i \in 1..Len(ids) |-> d[ids[i]]]
\* the largest per-node difference between history entries j-1 and j (round j)
RoundChange(j) ==
    LET ids == SortedSeq(DOMAIN history[j + 1].values)
    IN  QMaxSeq([i \in 1..Len(ids) |->
                   QAbs(QSub(history[j + 1].values[ids[i]], history[j].values[ids[i]]))])
\* the convergence test of the configured algorithm on the recorded round j
ConsensusAt(j) ==
    IF config.algorithm = "SYNCHRONOUS"
    THEN QLt(RoundChange(j), config.epsilon)
    ELSE QLt(QSub(QMaxSeq(DictValues(history[j + 1].values)),
                  QMinSeq(DictValues(history[j + 1].values))), config.epsilon)
\* the copy's node with the given id
CopyNode(id) == CHOOSE r \in {graph[i] : i \in 1..Len(graph)} : heap[r].id = id
\* len(node.neighbors) of the copy's node with the given id
Degree(id) == Cardinality(heap[CopyNode(id)].neighbors)
\* the largest neighbor-set size in the copy
LargestDegree == CHOOSE d \in {Degree(id) : id \in 0..(N - 1)} : \A id \in 0..(N - 1) : Degree(id) <= d
\* (1 - d_i * a) * old[i] + a * sum of old[j] over the neighbors j of node i
WeightedAverage(old, id, a) ==
    LET nbrs == SortedSeq(NeighborIds(heap, CopyNode(id)))
    IN  QAdd(QMul(QSub(One, QMul(QInt(Degree(id)), a)), old[id]),
             QMul(a, QSum([i \in 1..Len(nbrs) |-> old[nbrs[i]]])))
\* entry j of the history records a pairwise average of entry j - 1 along an edge
PairAveraged(j) ==
    LET ap == history[j].active_pair
        old == history[j - 1].values
        new == history[j].values
    IN  /\ ap[2] \in NeighborIds(heap, CopyNode(ap[1]))
        /\ new[ap[1]] = QDiv(QAdd(old[ap[1]], old[ap[2]]), QInt(2))
        /\ new[ap[2]] = QDiv(QAdd(old[ap[1]], old[ap[2]]), QInt(2))
        /\ \A id \in DOMAIN new : id \notin {ap[1], ap[2]} => new[id] = old[id]

\* every node of the copy has an empty neighbor set
AllIsolated == \A i \in 1..Len(graph) : heap[graph[i]].neighbors = {}
\* this step is one iteration of the loop of an asynchronous run
AsyncIteration ==
    /\ pc = "loop" /\ pc' = "loop"
    /\ config.algorithm = "ASYNCHRONOUS"
    /\ iterations' # iterations
\* this step is a recorded no-op: one more iteration, one more history entry
\* with the values of the entry before it and no active pair, no value
\* changed, no error
RecordedNoOp ==
    /\ iterations' = iterations + 1
    /\ Len(history') = Len(history) + 1
    /\ SubSeq(history', 1, Len(history)) = history
    /\ history'[Len(history')].iteration = iterations'
    /\ history'[Len(history')].active_pair = None
    /\ history'[Len(history')].values = history[Len(history)].values
    /\ heap' = heap
    /\ err' = "none"

\* set_initial_values has fixed the starting values
ValuesFixed == pc \in {"valued", "gen", "deliver", "shared", "loop", "ended"}

\* the node objects of the base graph and of the copy
BaseObjects == {nodes[i] : i \in 1..Len(nodes)}
CopyObjects == {graph[i] : i \in 1..Len(graph)}

\* the loop counter is within the cap, and at the cap exactly when the
\* convergence test failed in every iteration before the last possible one
IterationBound ==
    /\ iterations <= config.max_iterations
    /\ iterations = config.max_iterations <=>
           \A j \in 1..iterations : j < config.max_iterations => ~ConsensusAt(j)

\* the base graph is the 4-node FULL graph holding ExampleValues and the run
\* is synchronous with epsilon = 1e-6
ExampleRun ==
    /\ InRun
    /\ topology = "FULL"
    /\ Values(heap, nodes) = [i \in 1..Len(ExampleValues) |-> QInt(ExampleValues[i])]
    /\ config = ExampleConfig

(***************************************************************************)
(* Specifications.  Spec is the whole program; the others restrict it to   *)
(* the operations a property is about.                                     *)
(***************************************************************************)
Next ==
    \/ NewGraph(MaxSimN)
    \/ set_initial_values
    \/ apply_shares
    \/ GenerateShares
    \/ DeliverShares
    \/ \E cfg \in NoNoiseConfigs : run_simulation(cfg)
    \/ SyncStep
    \/ AsyncStep
    \/ Return
Spec == Init /\ [][Next]_vars

NextGraph == NewGraph(MaxN)
SpecGraph == Init /\ [][NextGraph]_vars

NextLive ==
    \/ NewGraph(MaxSimN)
    \/ set_initial_values
    \/ \E cfg \in AsyncConfigs : run_simulation(cfg)
    \/ \E i \in 1..MaxSimN : GossipIsolated(i)
    \/ \E i, j \in 1..MaxSimN : Gossip(i, j)
    \/ ReturnAfterBreak
\* random.choice is uniform: a node and a neighbor of it whose selection
\* would change the state cannot be passed over for ever
SpecLive ==
    /\ Init /\ [][NextLive]_vars
    /\ \A i \in 1..MaxSimN : WF_vars(GossipIsolated(i))
    /\ \A i, j \in 1..MaxSimN : WF_vars(Gossip(i, j))
    /\ WF_vars(ReturnAfterBreak)

NextShare ==
    \/ NewGraph(MaxSimN)
    \/ set_initial_values
    \/ apply_shares
    \/ GenerateShares
    \/ DeliverShares
SpecShare == Init /\ [][NextShare]_vars

NextSim ==
    \/ NewGraph(MaxSimN)
    \/ set_initial_values
    \/ \E cfg \in NoNoiseConfigs : run_simulation(cfg)
    \/ SyncStep
    \/ AsyncStep
    \/ Return
SpecSim == Init /\ [][NextSim]_vars

\* synchronous runs on FULL graphs of up to MaxN nodes
NextFull ==
    \/ \E n \in 0..MaxN : initialize_full(n)
    \/ set_initial_values
    \/ set_example_values
    \/ \E cfg \in SyncConfigs : run_simulation(cfg)
    \/ SyncStep
    \/ Return
SpecFull == Init /\ [][NextFull]_vars

\* sharing followed by runs, on graphs of up to MaxFrameN nodes
NextFrame ==
    \/ NewGraph(MaxFrameN)
    \/ set_initial_values
    \/ apply_shares
    \/ GenerateShares
    \/ DeliverShares
    \/ \E cfg \in NoNoiseConfigs : run_simulation(cfg)
    \/ SyncStep
    \/ AsyncStep
    \/ Return
SpecFrame == Init /\ [][NextFrame]_vars

(***************************************************************************)
(* C1: additive sharing preserves the global sum: once every node has      *)
(* generated its shares and every node has received the shares addressed   *)
(* to it, the sum of all node values equals the sum of all starting        *)
(* values, whatever the graph, random_range and shares drawn.              *)
(***************************************************************************)
C1_SumPreserved ==
    pc = "shared" => QSum(Values(heap, nodes)) = QSum(StartingValues(heap, nodes))

\* sharing has completed on a graph with edges, with non-zero shares that moved a value
C1_Witness ==
    /\ pc = "shared"
    /\ N >= 3
    /\ \E i \in 1..N : shares[i] # << >> /\ \E j \in DOMAIN shares[i] : shares[i][j] # 0
    /\ \E i \in 1..N : heap[nodes[i]].value # heap[nodes[i]].starting_value

(***************************************************************************)
(* C2: run_simulation never mutates the caller's graph: every step of a    *)
(* run (the copy, each update, the return) leaves every node object of     *)
(* the base graph (value, starting_value, neighbor set) and the node list  *)
(* as they were, so history entry 0 of every run, the first and any later  *)
(* one, holds the base graph's values.                                     *)
(***************************************************************************)
C2_BaseGraphUntouched ==
    /\ [][pc' \in {"loop", "ended"} =>
            /\ nodes' = nodes
            /\ \A i \in 1..N : heap'[nodes[i]] = heap[nodes[i]]]_vars
    /\ [](InRun => history[1].values = ValueDict(heap, nodes))

\* a run has ended after updates that changed the copy's values
C2_Witness ==
    /\ pc = "ended"
    /\ iterations >= 2
    /\ \E i \in 1..N : heap[graph[i]].value # heap[nodes[i]].value

(***************************************************************************)
(* C3: for every N >= 2 and every outcome of the random draws,             *)
(* constructing Graph(N, MESH) completes without raising and the graph is  *)
(* connected.                                                              *)
(***************************************************************************)
C3_MeshConnected ==
    (pc # "start" /\ topology = "MESH" /\ N >= 2) =>
        (err = "none" /\ Connected(heap, nodes))

(***************************************************************************)
(* C4: for every topology and every N >= 1 the neighbor relation of the    *)
(* constructed graph is symmetric and has no self-loop.                    *)
(***************************************************************************)
C4_SymmetricNoSelfLoop ==
    (pc = "built" /\ N >= 1) => (Symmetric(heap, nodes) /\ NoSelfLoop(heap, nodes))

(***************************************************************************)
(* C5: constructing a zero-node graph, for any topology, never ends in an  *)
(* index error, a max()-of-empty-sequence error or a division by zero.     *)
(***************************************************************************)
C5_EmptyGraphNoCrash ==
    (pc # "start" /\ N = 0) => err \notin {"IndexError", "ValueError", "ZeroDivisionError"}

(***************************************************************************)
(* C6: for a single-node graph of any topology and either algorithm,       *)
(* run_simulation returns without error, the node's value is never         *)
(* changed, and total_iterations is at most 1.                             *)
(***************************************************************************)
C6_SingleNodeRun ==
    (N = 1 /\ InRun) =>
        /\ err = "none"
        /\ heap[graph[1]].value = history[1].values[0]
        /\ iterations <= 1

(***************************************************************************)
(* C7: with no noise, after any number of synchronous or asynchronous      *)
(* update steps the sum of the node values equals the sum at history       *)
(* entry 0; and when the base graph's mean equals true_avg, the mean of    *)
(* the values (final_avg at the return) equals true_avg.                   *)
(***************************************************************************)
C7_SumInvariant ==
    (InRun /\ NoNoise) =>
        /\ QSum(Values(heap, graph)) = DictSum(history[1].values)
        /\ Mean(Values(heap, nodes)) = true_avg => graph_avg(heap, graph) = true_avg

\* a run of three updates has ended with values that differ from entry 0
C7_Witness ==
    /\ pc = "ended"
    /\ NoNoise
    /\ N = 3
    /\ iterations = 3
    /\ ValueDict(heap, graph) # history[1].values
    /\ Mean(Values(heap, nodes)) = true_avg

(***************************************************************************)
(* C8: in a no-noise synchronous run the recorded error                    *)
(* (max over nodes of |value - true_avg|) never increases along the        *)
(* history: error at entry k+1 <= error at entry k.  (It holds on every    *)
(* constructed graph, connected or not.)                                   *)
(***************************************************************************)
C8_ErrorMonotone ==
    (InRun /\ NoNoise /\ config.algorithm = "SYNCHRONOUS") =>
        \A i \in 1..(Len(history) - 1) : QLe(history[i + 1].error, history[i].error)

\* a synchronous run on a connected 3-node graph whose error went strictly down twice
C8_Witness ==
    /\ InRun /\ NoNoise /\ config.algorithm = "SYNCHRONOUS"
    /\ N = 3 /\ Connected(heap, graph)
    /\ Len(history) >= 3
    /\ QLt(history[2].error, history[1].error)
    /\ QLt(history[3].error, history[2].error)

(***************************************************************************)
(* C9 as claimed: whenever a no-noise synchronous run on a connected       *)
(* graph whose mean is true_avg stops before max_iterations, the final     *)
(* get_max_error() is < epsilon.                                           *)
(***************************************************************************)
C9_StopsBelowEpsilon ==
    SyncStoppedEarly => QLt(get_max_error(heap, graph, true_avg), config.epsilon)

(***************************************************************************)
(* C9 amended: whenever such a run stops before max_iterations, the        *)
(* largest per-node change of the last round, |history[last].values[i] -   *)
(* history[last-1].values[i]|, is < epsilon.                               *)
(***************************************************************************)
C9_StopsOnSmallChange ==
    SyncStoppedEarly => QLt(LastChange, config.epsilon)

\* a run on a connected 3-node graph stopped early while some node is still
\* at least epsilon away from true_avg
C9_Witness ==
    /\ SyncStoppedEarly
    /\ N = 3
    /\ ~QLt(get_max_error(heap, graph, true_avg), config.epsilon)

(***************************************************************************)
(* C10: on a connected graph with no noise and epsilon > 0, an             *)
(* asynchronous run in which every node and every neighbor keeps being     *)
(* selected, and whose iteration cap is never reached, eventually has      *)
(* max(values) - min(values) < epsilon and leaves the loop by break.       *)
(***************************************************************************)
C10_AsyncConverges == RunningConnected ~> ConvergedBreak

\* a run on a 3-node graph that started with a spread of at least epsilon
\* has left the loop with a spread below epsilon
C10_Witness ==
    /\ pc = "loop" /\ stopped
    /\ N = 3
    /\ ~QLt(QSub(QMaxSeq(Values(heap, nodes)), QMinSeq(Values(heap, nodes))), config.epsilon)
    /\ QLt(Spread(heap, graph), config.epsilon)
    /\ \A i \in 1..N : heap[graph[i]].value # heap[nodes[i]].value

(***************************************************************************)
(* C11: run_simulation ends after at most max_iterations updates:          *)
(* total_iterations <= max_iterations, total_iterations = max_iterations   *)
(* exactly when the convergence test succeeded in no earlier iteration,    *)
(* and the run ends without an error whether or not it converged (with     *)
(* max_iterations = 0, total_iterations is 0).                             *)
(***************************************************************************)
C11_TerminatesWithoutError ==
    pc = "ended" =>
        /\ IterationBound
        /\ config.max_iterations = 0 => iterations = 0
        /\ err = "none"

(***************************************************************************)
(* C12: the history of a run is a complete ordered trace: entry 0 holds    *)
(* the copied graph's values before any update, with iteration 0 and no    *)
(* active pair; every update, also the one on which convergence is         *)
(* detected, appends exactly one StepResult holding the values after it    *)
(* and leaves the earlier entries alone; so len(history) =                 *)
(* total_iterations + 1 and history[k].iteration = k for every k.          *)
(***************************************************************************)
C12_HistoryTrace ==
    /\ [][(pc' = "loop" /\ pc # "loop") =>
             (/\ history' = << StepResult(0, ValueDict(heap', graph'),
                                          history'[1].error, None) >>
              /\ iterations' = 0)]_vars
    /\ [][(pc' = "loop" /\ pc = "loop") =>
             (/\ iterations' = iterations + 1
              /\ Len(history') = Len(history) + 1
              /\ SubSeq(history', 1, Len(history)) = history
              /\ history'[Len(history')].values = ValueDict(heap', graph'))]_vars
    /\ [](InRun =>
            (/\ Len(history) = iterations + 1
             /\ \A j \in 1..Len(history) : history[j].iteration = j - 1))

\* a run stopped by the convergence test at its second update, both updates recorded
C12_Witness ==
    /\ pc = "ended"
    /\ StoppedEarly
    /\ iterations = 2
    /\ Len(history) = 3
    /\ history[3].values # history[1].values

(***************************************************************************)
(* C13: for every algorithm and every topology on a non-empty graph,       *)
(* run_simulation completes and returns a SimulationResult; no             *)
(* combination ends in an error.                                           *)
(***************************************************************************)
C13_ReturnsResult ==
    (pc = "ended" /\ N >= 1 /\ config.algorithm \in Algorithm /\ topology \in Topology) =>
        err = "none"

(***************************************************************************)
(* C14: on a FULL graph with no noise, one synchronous update sets every   *)
(* node to exactly the mean of the previous values: every history entry    *)
(* after entry 0 holds, for every node, the mean of the entry before it.   *)
(* For the 4-node FULL graph with values summing to 60 and epsilon = 1e-6  *)
(* every node holds 15 after the first update and the run stops before     *)
(* max_iterations with total_iterations <= 2.                              *)
(***************************************************************************)
C14_FullOneStepMean ==
    /\ (InRun /\ topology = "FULL" /\ config.algorithm = "SYNCHRONOUS" /\ NoNoise) =>
           \A j \in 2..Len(history) : \A id \in DOMAIN history[j].values :
               history[j].values[id] = Mean(DictValues(history[j - 1].values))
    /\ ExampleRun =>
           /\ \A j \in 2..Len(history) : \A id \in DOMAIN history[j].values :
                  history[j].values[id] = QInt(15)
           /\ pc = "ended" => (iterations <= 2 /\ StoppedEarly)

\* the scenario has run: all four nodes hold 15 and the run ended at its second update
C14_Witness ==
    /\ ExampleRun
    /\ pc = "ended"
    /\ N = 4
    /\ iterations = 2
    /\ \A i \in 1..N : heap[graph[i]].value = QInt(15)
    /\ \E i \in 1..N : heap[nodes[i]].value # QInt(15)

(***************************************************************************)
(* C15: RING construction yields a single cycle: for every N >= 3 the      *)
(* neighbors of node i are exactly (i+1) mod N and (i-1) mod N, so every   *)
(* node has exactly 2 neighbors and the graph has N edges.                 *)
(***************************************************************************)
C15_RingCycle ==
    (pc = "built" /\ topology = "RING" /\ N >= 3) =>
        /\ \A i \in 0..(N - 1) :
              /\ NeighborIds(heap, nodes[i + 1]) = {(i + 1) % N, (i + N - 1) % N}
              /\ Cardinality(heap[nodes[i + 1]].neighbors) = 2
        /\ EdgeCount(heap, nodes) = N

\* a ring of four nodes has been built
C15_Witness == pc = "built" /\ topology = "RING" /\ N = 4 /\ EdgeCount(heap, nodes) = 4

(***************************************************************************)
(* C16: STAR construction for every N >= 1 yields exactly the edges        *)
(* {0, i} for i in 1..N-1: node 0 has degree N-1, every other node has     *)
(* degree 1 with node 0 as its only neighbor.                              *)
(***************************************************************************)
C16_StarEdges ==
    (pc = "built" /\ topology = "STAR" /\ N >= 1) =>
        /\ NeighborIds(heap, nodes[1]) = 1..(N - 1)
        /\ Cardinality(heap[nodes[1]].neighbors) = N - 1
        /\ \A i \in 1..(N - 1) :
              /\ NeighborIds(heap, nodes[i + 1]) = {0}
              /\ Cardinality(heap[nodes[i + 1]].neighbors) = 1

\* a star of four nodes has been built: the center has three neighbors
C16_Witness ==
    /\ pc = "built" /\ topology = "STAR" /\ N = 4
    /\ Cardinality(heap[nodes[1]].neighbors) = 3

(***************************************************************************)
(* C17: TREE construction yields the heap-indexed binary tree: for every   *)
(* N and every node i, neighbors(i) is exactly the set of existing ids     *)
(* among floor((i-1)/2) (if i >= 1), 2i+1, 2i+2; the graph has N-1 edges   *)
(* and is connected.                                                       *)
(***************************************************************************)
C17_TreeShape ==
    (pc # "start" /\ topology = "TREE") =>
        /\ err = "none"
        /\ TreeShape(heap, nodes)
        /\ EdgeCount(heap, nodes) = N - 1
        /\ Connected(heap, nodes)

(***************************************************************************)
(* C18: the synchronous update is two-phase: with no noise, the value of   *)
(* every node i after a round is (1 - d_i*alpha)*old[i] + alpha * sum of   *)
(* old[j] over its neighbors j, where old is the state recorded before     *)
(* the round and alpha = 1/(max_degree + 1); so no new value depends on    *)
(* an already-updated value or on the order of the visit.                  *)
(***************************************************************************)
C18_TwoPhaseUpdate ==
    (InRun /\ NoNoise /\ config.algorithm = "SYNCHRONOUS") =>
        /\ alpha = QDiv(One, QInt(LargestDegree + 1))
        /\ \A j \in 2..Len(history) : \A id \in DOMAIN history[j].values :
              history[j].values[id] = WeightedAverage(history[j - 1].values, id, alpha)

\* two rounds on a 3-node graph whose nodes differ in degree, every node moved
C18_Witness ==
    /\ InRun /\ NoNoise /\ config.algorithm = "SYNCHRONOUS"
    /\ N = 3 /\ Len(history) >= 3
    /\ Degree(0) # Degree(1)
    /\ \A id \in 0..(N - 1) : history[2].values[id] # history[1].values[id]
    /\ history[3].values # history[2].values

(***************************************************************************)
(* C19: in a synchronous run, total_iterations is the least k >= 1 such    *)
(* that the max_change of round k (largest |old - new| over nodes) is      *)
(* < epsilon, or max_iterations if there is no such round: every earlier   *)
(* round had max_change >= epsilon, a run that ends before max_iterations  *)
(* ends on a round with max_change < epsilon, and with epsilon = 0 the     *)
(* run never stops early.                                                  *)
(***************************************************************************)
C19_LeastRound ==
    (InRun /\ config.algorithm = "SYNCHRONOUS") =>
        /\ iterations <= config.max_iterations
        /\ \A j \in 1..(iterations - 1) : ~QLt(RoundChange(j), config.epsilon)
        /\ max_change = (IF iterations = 0 THEN Zero ELSE RoundChange(iterations))
        /\ (pc = "ended" /\ iterations < config.max_iterations) =>
               QLt(RoundChange(iterations), config.epsilon)
        /\ (pc = "ended" /\ config.epsilon = Zero) => iterations = config.max_iterations

\* a run whose first round changed some node by at least epsilon ended at its second round
C19_Witness ==
    /\ pc = "ended" /\ config.algorithm = "SYNCHRONOUS"
    /\ N = 3
    /\ iterations = 2 /\ iterations < config.max_iterations
    /\ QLt(Zero, RoundChange(2))
    /\ QLt(RoundChange(2), config.epsilon)

(***************************************************************************)
(* C20: in every asynchronous step that returns an active pair (a, b),     *)
(* b is a neighbor of a; with no noise both a and b end with               *)
(* (old_a + old_b)/2 and every other node keeps its value.  A step         *)
(* returns no pair only when some node has no neighbor, and then no value  *)
(* changes.                                                                *)
(***************************************************************************)
C20_AsyncPair ==
    (InRun /\ NoNoise /\ config.algorithm = "ASYNCHRONOUS") =>
        \A j \in 2..Len(history) :
            IF history[j].active_pair = None
            THEN /\ \E id \in 0..(N - 1) : Degree(id) = 0
                 /\ history[j].values = history[j - 1].values
            ELSE PairAveraged(j)

\* two steps on a 3-node graph with different active pairs, both changing values
C20_Witness ==
    /\ InRun /\ NoNoise /\ config.algorithm = "ASYNCHRONOUS"
    /\ N = 3 /\ Len(history) >= 3
    /\ history[2].active_pair # None /\ history[3].active_pair # None
    /\ history[2].active_pair # history[3].active_pair
    /\ history[2].values # history[1].values
    /\ history[3].values # history[2].values

(***************************************************************************)
(* C21: an asynchronous step whose chosen node has no neighbors is a       *)
(* defined no-op: no node value changes, the recorded active pair is       *)
(* none, no error is raised, and the step counts as one iteration with     *)
(* one history entry.  On a graph where every node is without neighbors    *)
(* every step is such a step; and a step that records no active pair       *)
(* happens only where some node is without neighbors, and is such a step.  *)
(***************************************************************************)
C21_IsolatedNoOp ==
    /\ [][(AsyncIteration /\ AllIsolated) => RecordedNoOp]_vars
    /\ [][(AsyncIteration /\ Len(history') > Len(history)
             /\ history'[Len(history')].active_pair = None) =>
              (RecordedNoOp /\ \E id \in 0..(N - 1) : Degree(id) = 0)]_vars

\* three recorded no-op steps on a graph of two nodes without an edge whose
\* values differ
C21_Witness ==
    /\ InRun /\ config.algorithm = "ASYNCHRONOUS"
    /\ N = 2 /\ AllIsolated
    /\ iterations = 3 /\ Len(history) = 4
    /\ history[4].active_pair = None
    /\ heap[graph[1]].value # heap[graph[2]].value

(***************************************************************************)
(* C22: starting_value is never changed after it is fixed: no step of      *)
(* apply_shares (generate_shares, apply_received_shares), of the deep      *)
(* copy or of a synchronous or asynchronous update changes the             *)
(* starting_value of a node of the base graph; the nodes of the copy       *)
(* carry the starting values of the base graph throughout a run; so the    *)
(* mean of the starting values is true_avg for both graphs.                *)
(***************************************************************************)
C22_StartingValueFixed ==
    /\ [][(ValuesFixed /\ pc' # "start") =>
             \A i \in 1..N : heap'[nodes[i]].starting_value = heap[nodes[i]].starting_value]_vars
    /\ [](ValuesFixed => Mean(StartingValues(heap, nodes)) = true_avg)
    /\ [](InRun =>
            (/\ StartingValues(heap, graph) = StartingValues(heap, nodes)
             /\ Mean(StartingValues(heap, graph)) = true_avg))

\* after sharing moved the base values away from the starting values, an
\* update has moved the values of the copy away from the base values
C22_Witness ==
    /\ InRun /\ N = 2 /\ iterations = 2
    /\ \E i \in 1..N : heap[nodes[i]].value # heap[nodes[i]].starting_value
    /\ \E i \in 1..N : heap[graph[i]].value # heap[nodes[i]].value
    /\ \E i \in 1..N : heap[graph[i]].value # heap[graph[i]].starting_value

(***************************************************************************)
(* C23: the deep copy used by run_simulation is a self-contained graph     *)
(* isomorphic to the base graph: one node object per base node, none of    *)
(* them an object of the base graph, with the same id, the same neighbor   *)
(* ids and, before the first update, the same value; every member of a     *)
(* copied node's neighbor set is the copy's own node object for that id,   *)
(* so the value a node reads from a neighbor is the value the last update  *)
(* wrote for that neighbor.                                                *)
(***************************************************************************)
C23_CopyIsomorphic ==
    InRun =>
        /\ Len(graph) = N
        /\ Cardinality(CopyObjects) = N
        /\ CopyObjects \cap BaseObjects = {}
        /\ \A i \in 1..N :
              /\ heap[graph[i]].id = heap[nodes[i]].id
              /\ NeighborIds(heap, graph[i]) = NeighborIds(heap, nodes[i])
              /\ Cardinality(heap[graph[i]].neighbors) = Cardinality(heap[nodes[i]].neighbors)
              /\ iterations = 0 => heap[graph[i]].value = heap[nodes[i]].value
              /\ \A x \in heap[graph[i]].neighbors :
                    /\ x \in CopyObjects
                    /\ x = graph[heap[x].id + 1]
                    /\ heap[x].value = history[Len(history)].values[heap[x].id]

\* two updates have run on the copy of a connected 3-node graph and every
\* node of the copy has left the value of its base node
C23_Witness ==
    /\ InRun /\ N = 3 /\ Connected(heap, nodes)
    /\ iterations = 2
    /\ EdgeCount(heap, graph) >= 2
    /\ \A i \in 1..N : heap[graph[i]].value # heap[nodes[i]].value

(***************************************************************************)
(* C24: when a no-noise asynchronous run on a graph whose mean equals      *)
(* true_avg stops before max_iterations, the final state has               *)
(* max(values) - min(values) < epsilon and every node is within epsilon    *)
(* of true_avg: the final get_max_error() is < epsilon.                    *)
(***************************************************************************)
C24_AsyncStopsBelowEpsilon ==
    (StoppedEarly /\ NoNoise /\ config.algorithm = "ASYNCHRONOUS"
        /\ Mean(Values(heap, nodes)) = true_avg) =>
        /\ QLt(Spread(heap, graph), config.epsilon)
        /\ QLt(get_max_error(heap, graph, true_avg), config.epsilon)
        /\ \A i \in 1..N : QLt(QAbs(QSub(heap[graph[i]].value, true_avg)), config.epsilon)

\* a run on a 3-node graph that started with a spread of at least epsilon
\* stopped at its second step with values that still differ
C24_Witness ==
    /\ StoppedEarly /\ NoNoise /\ config.algorithm = "ASYNCHRONOUS"
    /\ N = 3
    /\ iterations = 2
    /\ ~QLt(Spread(heap, nodes), config.epsilon)
    /\ QLt(Zero, Spread(heap, graph))
    /\ QLt(Zero, get_max_error(heap, graph, true_avg))

====
